---- MODULE Spec2Model ----
(***************************************************************************)
(* Badgelink host-side protocol engine (src/bootloader/badgelink.py):      *)
(* the BadgelinkConnection constructor, the sync handshake and             *)
(* simple_request, driven against a device that may put any frame on the   *)
(* line (Spec) or that answers the frames it is sent (SpecReboot).         *)
(***************************************************************************)
EXTENDS Integers, Sequences, FiniteSets, TLC

(* ------------------------------ bounds --------------------------------- *)

\* simple_request calls made on one connection
MaxCalls == 2
\* largest value of the `tries` argument of simple_request that is explored
MaxTries == 3
\* the longest payload handed to send_frame, in bytes
MaxPayload == 3
\* the most frames sent on one stream
MaxFrames == 2
\* the most full chunks a transferred file holds
MaxChunks == 2
\* the most requests one facade operation makes
MaxRequests == 5

(* ------------------------- program constants --------------------------- *)

\* sync(self, tries = 3)
SyncTries == 3
\* simple_request(self, request, to_find = None, timeout = 1, tries = 3); no
\* caller in the file passes tries
DefaultTries == 3
\* a serial is a 32-bit unsigned number, held as two 16-bit limbs <<hi, lo>>
LimbMod == 65536
\* a byte
ByteMod == 256
\* recv_frame: `if len(buffer) < 7`
MinFrameLen == 7
\* struct.pack("<I", ...): the checksum takes four bytes
EccLen == 4
\* Badgelink.CHUNK_MAX_SIZE
CHUNK_MAX_SIZE == 4096

(* ------------------------------ serials -------------------------------- *)

\* (serial + 1) % (1 << 32) on the two-limb representation
Inc32(s) ==
    IF s[2] = LimbMod - 1
    THEN << (s[1] + 1) % LimbMod, 0 >>
    ELSE << s[1], s[2] + 1 >>

\* values random.randint(0, (1 << 32) - 1) may return (samples, with the
\* largest 32-bit value and a value whose increment carries into the high limb)
SerialSamples == { << LimbMod - 1, LimbMod - 1 >>, << 7, LimbMod - 1 >> }

\* self.serial_no = 0
InitialSerial == << 0, 0 >>

(* --------------------------- status codes ------------------------------ *)

\* the StatusCode members simple_request matches on
KnownStatus ==
    { "StatusOk", "StatusInternalError", "StatusMalformed",
      "StatusNotSupported", "StatusNotFound", "StatusIllegalState",
      "StatusNoSpace", "StatusNotEmpty", "StatusIsFile", "StatusIsDir",
      "StatusExists" }

\* a status_code value that is none of the members above
UnknownStatus == "StatusUnknown"

\* the `response` field of a received packet: not set, or set with a status
Absent == "absent"
Responses == KnownStatus \cup { UnknownStatus, Absent }

\* BadgeError subclasses: the status code each constructor hands to
\* BadgeError.__init__ (self.code)
ErrorCode(cls) ==
    CASE cls = "MalformedRequestError" -> "StatusMalformed"
      [] cls = "BadgeInternalError"    -> "StatusInternalError"
      [] cls = "NotSupportedError"     -> "StatusNotSupported"
      [] cls = "NotFoundError"         -> "StatusNotFound"
      [] cls = "IllegalStateError"     -> "StatusNotFound"
      [] cls = "NoSpaceError"          -> "StatusNoSpace"
      [] cls = "NotEmptyError"         -> "StatusNotEmpty"
      [] cls = "IsFileError"           -> "StatusIsFile"
      [] cls = "IsDirError"            -> "StatusIsDir"
      [] cls = "ExistsError"           -> "StatusExists"
      [] OTHER                         -> "none"

\* match resp_packet.response.status_code: the exception class raised, "none"
\* when the match falls through (StatusOk, or a value with no case)
StatusError(code) ==
    CASE code = "StatusOk"            -> "none"
      [] code = "StatusInternalError" -> "BadgeInternalError"
      [] code = "StatusMalformed"     -> "MalformedRequestError"
      [] code = "StatusNotSupported"  -> "NotSupportedError"
      [] code = "StatusNotFound"      -> "NotFoundError"
      [] code = "StatusIllegalState"  -> "IllegalStateError"
      [] code = "StatusNoSpace"       -> "NoSpaceError"
      [] code = "StatusNotEmpty"      -> "NotEmptyError"
      [] code = "StatusIsFile"        -> "IsFileError"
      [] code = "StatusIsDir"         -> "IsDirError"
      [] code = "StatusExists"        -> "ExistsError"
      [] OTHER                        -> "none"

BadgeErrors == { StatusError(c) : c \in KnownStatus \ { "StatusOk" } }

(* ------------------------------ frames --------------------------------- *)

\* what recv_frame makes of a delimited frame: a payload that parses to a
\* Packet, or one of its three CommunicationErrors
FrameKinds == { "packet", "short", "cobs", "crc" }

Packet(sync, serial, response) ==
    [ kind |-> "packet", sync |-> sync, serial |-> serial, response |-> response ]

BadFrame(kind) ==
    [ kind |-> kind, sync |-> FALSE, serial |-> InitialSerial, response |-> Absent ]

NoPacket == BadFrame("none")

\* the CommunicationError message recv_frame raises for a bad frame
FrameError(kind) ==
    CASE kind = "short" -> "Frame is too short"
      [] kind = "cobs"  -> "Failed to decode COBS"
      [] kind = "crc"   -> "CRC32 mismatch"
      [] OTHER          -> ""


\* what one receive attempt can end in: no delimiting zero by the deadline,
\* read_all raising, or a delimited frame
Timeout == BadFrame("timeout")
IoError == BadFrame("io_error")

\* the `response` fields explored on packets that have the sync flag set
SyncResponses == { Absent, "StatusOk", "StatusNoSpace" }

\* the frames a device may put on the line while the host counter is `cur`: a
\* packet with that serial or another one, or a frame recv_frame rejects
DeviceFrames(cur) ==
    { Packet(FALSE, se, r) : se \in { cur, Inc32(cur) }, r \in Responses }
        \cup { Packet(TRUE, se, r) : se \in { cur, Inc32(cur) }, r \in SyncResponses }
        \cup { BadFrame(k) : k \in { "short", "cobs", "crc" } }

\* BadgeUSB.read_all swallows usb.USBError and returns what it has; Serial.read_all
\* lets SerialException through
ReadAllRaises(c) == c = "Serial"

RecvOutcomes(c, cur) ==
    DeviceFrames(cur) \cup { Timeout } \cup (IF ReadAllRaises(c) THEN { IoError } ELSE {})

\* the exception a failing transport call raises
TransportError(c) == IF c = "Serial" THEN "SerialException" ELSE "USBError"

(* ------------------------------- state --------------------------------- *)

VARIABLES
    conn,           \* class of self.conn: "Serial" or "BadgeUSB"
    rx,             \* frames sent by the device that the host has not consumed
    wire,           \* packets written by the host that the device has not consumed
    serial_no,      \* self.serial_no
    pc,             \* where the host is
    tries,          \* simple_request: the tries argument
    attempt,        \* simple_request: iterations of the for loop completed
    last_err,       \* simple_request: last_err
    req_packet,     \* simple_request: req_packet.serial
    resp_packet,    \* simple_request: resp_packet
    sync_caller,    \* who called sync: "ctor" or "req"
    sync_i,         \* sync: iterations of the for loop completed
    sync_last_err,  \* sync: last_err
    result,         \* how the last operation ended: "none" while running, "Ok",
                    \* or the class of the exception that left it
    err_msg,        \* the message of that exception
    err_code,       \* the code a BadgeError carries (self.code)
    returned,       \* the `response` field simple_request returned
    calls,          \* simple_request calls started on this connection
    established,    \* history: serial_no as of the last completed handshake or call
    req_sent,       \* history: request packets the current call put on the wire
    sync_sent,      \* history: serials of the sync packets of the current handshake
    sync_draws,     \* history: serials drawn by the current handshake
    sync_reply,     \* history: the packet the last handshake accepted
    last_rx,        \* history: how the last receive attempt ended, and where
    only_timeouts,  \* history: every receive attempt of the current call timed out
    ctor_ops,       \* history: what __init__ has done on the transport, in order
    in_flight,      \* history: packets sent since the last receive attempt ended
    prev_ok,        \* history: the simple_request call before this one returned a response
    poisoned,       \* history: an operation on this connection raised DisconnectedError
    call_serial,    \* history: serial_no when the current simple_request call was made
    pkts,           \* history: packets the current simple_request call has written
    \* the frame layer: send_frame and recv_frame over a byte stream
    rxbuf,          \* self.rxbuf
    pending,        \* bytes written towards the receiver that read_all has not returned yet
    fr_sent,        \* history: payloads of the frames sent and not yet taken, in order
    fr_expect,      \* history: the sent frame the last recv_frame took, if it took one
    fr_got,         \* how the last recv_frame ended
    fr_mod,         \* history: what happened to the stream on the way
    fr_before,      \* history: the buffer the last recv_frame searched for a zero
    \* the facade: the transfer and list operations of class Badgelink
    op,             \* the operation running
    fpc,            \* where it is: the request it makes next, or how it ended
    size,           \* upload: size; download: meta.size; list: the total last reported
    pos,            \* upload, download: pos; nvs_list, fs_list: offset
    out,            \* list: out / all_meta
    written,        \* download: the fd.write calls so far, as <<position, length>>
    reqs,           \* history: the requests handed to simple_request, with their outcome
    ferr,           \* the exception that left the operation: <<class, message>>
    arg,            \* the argument of the operation that is looked at
    via,            \* who called: "cli", the command line of the file, or "api"
    host_file       \* download: the file at the caller's path, as the call found
                    \* it and as it is now

reqLocals  == << tries, attempt, last_err, req_packet, resp_packet >>
syncLocals == << sync_caller, sync_i, sync_last_err >>
outcome    == << result, err_msg, err_code, returned, poisoned >>
line       == << rx, wire >>
linkVars == << conn, rx, wire, serial_no, pc, tries, attempt, last_err, req_packet,
               resp_packet, sync_caller, sync_i, sync_last_err, result, err_msg,
               err_code, returned, calls, established, req_sent, sync_sent,
               sync_draws, sync_reply, last_rx, only_timeouts, ctor_ops, in_flight,
               prev_ok, poisoned, call_serial, pkts >>
frameVars == << rxbuf, pending, fr_sent, fr_expect, fr_got, fr_mod, fr_before >>
xferVars == << op, fpc, size, pos, out, written, reqs, ferr, arg, via, host_file >>
vars == << linkVars, frameVars, xferVars >>

NoResponse == "none"

InCtor == pc \in { "ctor_write", "ctor_drain" }
              \/ (pc \in { "sync_send", "sync_recv" } /\ sync_caller = "ctor")

\* what the history keeps of a receive attempt: at is "req" for the receive of
\* simple_request's loop, "sync" for the receive of sync's loop
Seen(o, at) == [ kind |-> o.kind, sync |-> o.sync, serial |-> o.serial, at |-> at ]

\* the exception recv_packet raises when a receive ends as o, "none" when it
\* returns a packet
RecvRaises(c, o) ==
    CASE o.kind = "timeout"  -> "TimeoutError"
      [] o.kind = "io_error" -> TransportError(c)
      [] o.kind \in { "short", "cobs", "crc" } -> "CommunicationError"
      [] OTHER -> "none"

\* a handler that takes CommunicationError as well
Caught_CommunicationToo(cls) == cls \in { "TimeoutError", "CommunicationError" }

\* `except TimeoutError`: the one handler around recv_packet, in sync and in
\* simple_request
Caught(cls) == cls = "TimeoutError"

\* a test of the sync flag alone
ValidSync_FlagOnly(o, cur) == o.sync

\* sync: `not sync_resp.sync or sync_resp.serial != self.serial_no`, negated
ValidSync(o, cur) == o.sync /\ o.serial = cur

(* ----------------------- leaving an operation -------------------------- *)

\* an exception leaves the running operation: a constructor that raises leaves
\* no connection behind, a simple_request that raises leaves it usable
Raises(cls, msg) ==
    /\ pc' = IF InCtor THEN "dead" ELSE "idle"
    /\ result' = cls
    /\ err_msg' = msg
    /\ err_code' = ErrorCode(cls)
    /\ returned' = NoResponse
    /\ poisoned' = (poisoned \/ cls = "DisconnectedError")
    /\ established' = serial_no'

\* return resp_packet.response
Returns(r) ==
    /\ pc' = "idle"
    /\ result' = "Ok"
    /\ err_msg' = ""
    /\ err_code' = "none"
    /\ returned' = r
    /\ poisoned' = poisoned
    /\ established' = serial_no'

\* the operation goes on
GoesOn(next) ==
    /\ pc' = next
    /\ UNCHANGED << outcome, established >>

\* `not resp_packet.response`: the truth value of a protobuf message object.
\* The message classes define neither __bool__ nor __len__, so every message
\* object is true, whether or not the field was set on the wire.
Falsy(r) == FALSE

\* resp_packet.response.status_code: an unset `response` reads as the default
\* message, whose status_code is the zero value of the enum
StatusCodeOf(r) == IF r = Absent THEN "StatusOk" ELSE r

\* CheckResponse without the comparison of the two serials
CheckResponse_NoSerialCheck(req, resp) ==
    IF Falsy(resp.response)
    THEN Raises("MalformedResponseError", "Packet is missing response")
    ELSE IF StatusError(StatusCodeOf(resp.response)) # "none"
    THEN Raises(StatusError(StatusCodeOf(resp.response)), "")
    ELSE Returns(resp.response)

\* simple_request after its loop: "Check for response error conditions"
CheckResponse(req, resp) ==
    IF req # resp.serial
    THEN Raises("CommunicationError", "Serial mismatch")
    ELSE IF Falsy(resp.response)
    THEN Raises("MalformedResponseError", "Packet is missing response")
    ELSE IF StatusError(StatusCodeOf(resp.response)) # "none"
    THEN Raises(StatusError(StatusCodeOf(resp.response)), "")
    ELSE Returns(resp.response)

\* simple_request after its loop: `if last_err: raise last_err`, then the checks
AfterLoop(le, resp) ==
    IF le # "None"
    THEN Raises(le, "Receive timed out")
    ELSE CheckResponse(req_packet, resp)

\* LoopNext with a loop that runs once more than `tries`
LoopNext_OneMore(le) ==
    /\ attempt' = attempt + 1
    /\ last_err' = le
    /\ IF attempt + 1 < tries + 1
       THEN GoesOn("req_send")
       ELSE AfterLoop(le, resp_packet')

\* one iteration of simple_request's loop ends without break, last_err being le
LoopNext(le) ==
    /\ attempt' = attempt + 1
    /\ last_err' = le
    /\ IF attempt + 1 < tries
       THEN GoesOn("req_send")
       ELSE AfterLoop(le, resp_packet')

(* ----------------------------- constructor ----------------------------- *)

\* the frame layer at rest: self.rxbuf = b"", nothing on the way
FrameIdle ==
    /\ rxbuf = << >>
    /\ pending = << >>
    /\ fr_sent = << >>
    /\ fr_expect = [ n |-> 0, took |-> FALSE, payload |-> << >> ]
    /\ fr_got = [ kind |-> "none", payload |-> << >>, diag |-> << >> ]
    /\ fr_mod = "none"
    /\ fr_before = << >>

\* an operation called with no argument, or with arguments that are not
\* looked at
NoArg == [ field |-> "none", len |-> 0, nul |-> FALSE ]

\* no file of the host has been opened
NoFile == [ before |-> "none", now |-> "none" ]

\* no facade operation has been started
XferIdle ==
    /\ op = "none"
    /\ host_file = NoFile
    /\ arg = NoArg
    /\ via = "api"
    /\ fpc = "idle"
    /\ size = 0
    /\ pos = 0
    /\ out = << >>
    /\ written = << >>
    /\ reqs = << >>
    /\ ferr = << "none", "" >>

\* the byte __init__ writes before anything else: b'\0'
CtorDelimiter == << 0 >>

\* the calls __init__ makes on the transport and on itself, in the order of
\* the source
CtorOrder ==
    << [ op |-> "write", data |-> CtorDelimiter ],
       [ op |-> "flush", data |-> << >> ],
       [ op |-> "read_all", data |-> << >> ],
       [ op |-> "sync", data |-> << >> ] >>

\* the start of BadgelinkConnection.__init__
CtorInit ==
    /\ conn \in { "Serial", "BadgeUSB" }
    /\ rx = << >>
    /\ wire = << >>
    /\ serial_no = InitialSerial
    /\ pc = "ctor_write"
    /\ tries = 0
    /\ attempt = 0
    /\ last_err = "None"
    /\ req_packet = InitialSerial
    /\ resp_packet = NoPacket
    /\ sync_caller = "ctor"
    /\ sync_i = 0
    /\ sync_last_err = "None"
    /\ result = "none"
    /\ err_msg = ""
    /\ err_code = "none"
    /\ returned = NoResponse
    /\ calls = 0
    /\ established = InitialSerial
    /\ req_sent = 0
    /\ sync_sent = << >>
    /\ sync_draws = 0
    /\ sync_reply = Seen(NoPacket, "none")
    /\ last_rx = Seen(NoPacket, "none")
    /\ only_timeouts = TRUE
    /\ ctor_ops = << >>
    /\ in_flight = 0
    /\ prev_ok = FALSE
    /\ poisoned = FALSE
    /\ call_serial = InitialSerial
    /\ pkts = 0

\* the first statements of sync: draw serial_no, last_err = None, enter the loop
SyncEnter(caller) ==
    /\ serial_no' \in SerialSamples
    /\ sync_caller' = caller
    /\ sync_i' = 0
    /\ sync_last_err' = "None"
    /\ sync_sent' = << >>
    /\ sync_draws' = 1
    /\ sync_reply' = Seen(NoPacket, "none")
    /\ GoesOn("sync_send")

\* self.conn.write(b'\0'); self.conn.flush()   (ok: the transport takes it)
CtorWrite(ok) ==
    /\ pc = "ctor_write"
    /\ UNCHANGED in_flight
    /\ ctor_ops' = IF ok THEN ctor_ops \o SubSeq(CtorOrder, 1, 2)
                       ELSE Append(ctor_ops, CtorOrder[1])
    /\ UNCHANGED << conn, prev_ok, call_serial, serial_no, reqLocals, syncLocals, calls, req_sent,
                    sync_sent, sync_draws, sync_reply, last_rx, only_timeouts >>
    /\ IF ok
       THEN GoesOn("ctor_drain")
       ELSE Raises(TransportError(conn), "")

\* what the transport may hold when the connection is made: nothing, or the
\* tail of a frame the device was sending
StaleSamples == { << >>, << 7, 0 >> }

\* CtorDrain without the read_all
CtorDrain_NoRead(ok, stale) ==
    /\ pc = "ctor_drain"
    /\ UNCHANGED << ctor_ops, rxbuf, in_flight >>
    /\ UNCHANGED << conn, prev_ok, call_serial, reqLocals, calls, req_sent, last_rx, only_timeouts >>
    /\ SyncEnter("ctor")

\* self.conn.read_all() returns the stale bytes and the result is dropped:
\* self.rxbuf stays as it was set, b""; then self.sync() starts
CtorDrain(ok, stale) ==
    /\ pc = "ctor_drain"
    /\ UNCHANGED in_flight
    /\ ctor_ops' = Append(ctor_ops, CtorOrder[3])
    /\ rxbuf' = rxbuf
    /\ UNCHANGED << conn, prev_ok, call_serial, reqLocals, calls, req_sent, last_rx, only_timeouts >>
    /\ IF ok \/ ~ReadAllRaises(conn)
       THEN SyncEnter("ctor")
       ELSE /\ UNCHANGED << serial_no, syncLocals, sync_sent, sync_draws, sync_reply >>
            /\ Raises(TransportError(conn), "")

(* -------------------------------- sync --------------------------------- *)

\* a sync packet that carries another serial on every retry
SyncSerial_PerAttempt(i, cur) == IF i = 0 THEN cur ELSE Inc32(cur)

\* the serial of the sync packet sent by iteration i of sync's loop
SyncSerial(i, cur) == cur

\* sync leaves by `raise last_err`: the constructor lets it through,
\* simple_request's `except TimeoutError` takes it as the attempt's error
SyncTimesOut ==
    IF sync_caller = "ctor" \/ ~Caught("TimeoutError")
    THEN /\ Raises("TimeoutError", "Receive timed out")
         /\ UNCHANGED << attempt, last_err >>
    ELSE LoopNext("TimeoutError")

\* SyncReturns with a resync that does not use up an iteration of the loop
SyncReturns_NotCounted ==
    IF sync_caller = "ctor"
    THEN /\ pc' = "idle"
         /\ result' = "Ok"
         /\ established' = serial_no
         /\ UNCHANGED << err_msg, err_code, returned, poisoned, attempt, last_err >>
    ELSE /\ UNCHANGED << attempt, last_err, outcome >>
         /\ pc' = "req_send"
         /\ established' = serial_no

\* sync returns: the constructor is done, simple_request's iteration ends
\* with last_err as it was
SyncReturns ==
    IF sync_caller = "ctor"
    THEN /\ pc' = "idle"
         /\ result' = "Ok"
         /\ established' = serial_no
         /\ UNCHANGED << err_msg, err_code, returned, poisoned, attempt, last_err >>
    ELSE /\ attempt' = attempt + 1
         /\ UNCHANGED last_err
         /\ IF attempt + 1 < tries
            THEN /\ pc' = "req_send"
                 /\ established' = serial_no
                 /\ UNCHANGED outcome
            ELSE AfterLoop(last_err, resp_packet)

\* self.send_packet(Packet(serial=self.serial_no, sync=True))
SyncSend(ok) ==
    /\ pc = "sync_send"
    /\ in_flight' = IF ok THEN in_flight + 1 ELSE in_flight
    /\ UNCHANGED << conn, prev_ok, call_serial, ctor_ops, serial_no, reqLocals, syncLocals, calls, req_sent,
                    sync_draws, sync_reply, last_rx, only_timeouts >>
    /\ IF ok
       THEN /\ sync_sent' = Append(sync_sent, SyncSerial(sync_i, serial_no))
            /\ GoesOn("sync_recv")
       ELSE /\ UNCHANGED sync_sent
            /\ Raises("DisconnectedError", "Disconnected")

\* sync_resp = self.recv_packet(0.5) and what sync does with it; o is how the
\* receive ended
SyncRecv(o) ==
    /\ pc = "sync_recv"
    /\ in_flight' = 0
    /\ last_rx' = Seen(o, "sync")
    /\ only_timeouts' = (only_timeouts /\ o.kind = "timeout")
    /\ UNCHANGED << conn, prev_ok, call_serial, serial_no, tries, req_packet, resp_packet, sync_caller,
                    calls, req_sent, sync_sent, sync_draws >>
    /\ ctor_ops' = IF sync_caller = "ctor" /\ RecvRaises(conn, o) = "none"
                          /\ ValidSync(o, serial_no)
                       THEN Append(ctor_ops, CtorOrder[4])
                       ELSE ctor_ops
    /\ CASE RecvRaises(conn, o) # "none" /\ Caught(RecvRaises(conn, o)) ->
              /\ sync_i' = sync_i + 1
              /\ sync_last_err' = RecvRaises(conn, o)
              /\ UNCHANGED sync_reply
              /\ IF sync_i + 1 < SyncTries
                 THEN /\ GoesOn("sync_send")
                      /\ UNCHANGED << attempt, last_err >>
                 ELSE SyncTimesOut
         [] RecvRaises(conn, o) # "none" /\ ~Caught(RecvRaises(conn, o)) ->
              /\ UNCHANGED << attempt, last_err, sync_i, sync_last_err, sync_reply >>
              /\ Raises(RecvRaises(conn, o), FrameError(o.kind))
         [] RecvRaises(conn, o) = "none" /\ ~ValidSync(o, serial_no) ->
              /\ UNCHANGED << attempt, last_err, sync_i, sync_last_err, sync_reply >>
              /\ Raises("CommunicationError", "Invalid sync")
         [] RecvRaises(conn, o) = "none" /\ ValidSync(o, serial_no) ->
              /\ sync_reply' = Seen(o, "sync")
              /\ UNCHANGED << sync_i, sync_last_err >>
              /\ SyncReturns

(* --------------------------- simple_request ---------------------------- *)

\* a call of simple_request(request, tries = t): the serial is advanced, then
\* the loop is entered
Call(t) ==
    /\ pc = "idle"
    /\ calls < MaxCalls
    /\ calls' = calls + 1
    /\ serial_no' = Inc32(serial_no)
    /\ tries' = t
    /\ attempt' = 0
    /\ last_err' = "None"
    /\ req_packet' = InitialSerial
    /\ resp_packet' = NoPacket
    /\ sync_caller' = "req"
    /\ sync_i' = 0
    /\ sync_last_err' = "None"
    /\ pc' = "req_send"
    /\ result' = "none"
    /\ err_msg' = ""
    /\ err_code' = "none"
    /\ returned' = NoResponse
    /\ req_sent' = 0
    /\ sync_sent' = << >>
    /\ sync_draws' = 0
    /\ sync_reply' = Seen(NoPacket, "none")
    /\ last_rx' = Seen(NoPacket, "none")
    /\ only_timeouts' = TRUE
    /\ UNCHANGED << conn, established, ctor_ops, in_flight, poisoned >>
    /\ prev_ok' = (result = "Ok" /\ returned # NoResponse)
    /\ call_serial' = serial_no

\* a request packet that carries another serial on every retransmission
ReqSerial_PerAttempt(cur, i) == IF i = 0 THEN cur ELSE Inc32(cur)

\* req_packet = Packet(request=request, serial=self.serial_no): the serial of
\* the request packet built by iteration i of the loop
ReqSerial(cur, i) == cur

\* a send that is followed by another send, with no receive in between
ReqSend_NoWait(ok) ==
    /\ pc = "req_send"
    /\ req_packet' = ReqSerial(serial_no, attempt)
    /\ in_flight' = IF ok THEN in_flight + 1 ELSE in_flight
    /\ UNCHANGED << conn, prev_ok, call_serial, ctor_ops, serial_no, tries, attempt, last_err, resp_packet,
                    syncLocals, calls, sync_sent, sync_draws, sync_reply, last_rx,
                    only_timeouts >>
    /\ IF ok
       THEN /\ req_sent' = req_sent + 1
            /\ GoesOn(IF req_sent + 1 < tries THEN "req_send" ELSE "req_recv")
       ELSE /\ UNCHANGED req_sent
            /\ Raises("DisconnectedError", "Disconnected")

\* req_packet = Packet(request=request, serial=self.serial_no);
\* self.send_packet(req_packet)
ReqSend(ok) ==
    /\ pc = "req_send"
    /\ req_packet' = ReqSerial(serial_no, attempt)
    /\ in_flight' = IF ok THEN in_flight + 1 ELSE in_flight
    /\ UNCHANGED << conn, prev_ok, call_serial, ctor_ops, serial_no, tries, attempt, last_err, resp_packet,
                    syncLocals, calls, sync_sent, sync_draws, sync_reply, last_rx,
                    only_timeouts >>
    /\ IF ok
       THEN /\ req_sent' = req_sent + 1
            /\ GoesOn("req_recv")
       ELSE /\ UNCHANGED req_sent
            /\ Raises("DisconnectedError", "Disconnected")

\* resp_packet = self.recv_packet(timeout) and the rest of the loop body; o is
\* how the receive ended
ReqRecv(o) ==
    /\ pc = "req_recv"
    /\ in_flight' = 0
    /\ last_rx' = Seen(o, "req")
    /\ only_timeouts' = (only_timeouts /\ o.kind = "timeout")
    /\ UNCHANGED << conn, prev_ok, call_serial, ctor_ops, tries, req_packet, calls, req_sent >>
    /\ CASE RecvRaises(conn, o) # "none" /\ Caught(RecvRaises(conn, o)) ->
              /\ UNCHANGED << serial_no, resp_packet, syncLocals, sync_sent,
                              sync_draws, sync_reply >>
              /\ LoopNext(RecvRaises(conn, o))
         [] RecvRaises(conn, o) # "none" /\ ~Caught(RecvRaises(conn, o)) ->
              /\ UNCHANGED << serial_no, attempt, last_err, resp_packet,
                              syncLocals, sync_sent, sync_draws, sync_reply >>
              /\ Raises(RecvRaises(conn, o), FrameError(o.kind))
         [] RecvRaises(conn, o) = "none" /\ o.sync ->
              /\ resp_packet' = o
              /\ UNCHANGED << attempt, last_err >>
              /\ SyncEnter("req")
         [] RecvRaises(conn, o) = "none" /\ ~o.sync ->
              /\ resp_packet' = o
              /\ last_err' = "None"
              /\ UNCHANGED << serial_no, attempt, syncLocals, sync_sent,
                              sync_draws, sync_reply >>
              /\ AfterLoop("None", o)

(* ------------------- the device may send anything ---------------------- *)

\* every receive ends in one of its outcomes, every write succeeds or fails;
\* nothing is buffered on the line
Init == CtorInit /\ FrameIdle /\ XferIdle

Next ==
    \/ \E ok \in BOOLEAN : CtorWrite(ok) /\ UNCHANGED << line, pkts, frameVars, xferVars >>
    \/ \E ok \in BOOLEAN, stale \in StaleSamples :
          /\ CtorDrain(ok, stale)
          /\ UNCHANGED << line, pkts, pending, fr_sent, fr_expect, fr_got, fr_mod,
                          fr_before, xferVars >>
    \/ \E ok \in BOOLEAN : SyncSend(ok) /\ UNCHANGED << line, pkts, frameVars, xferVars >>
    \/ \E o \in RecvOutcomes(conn, serial_no) : SyncRecv(o) /\ UNCHANGED << line, pkts, frameVars, xferVars >>
    \/ \E t \in 1 .. MaxTries : Call(t) /\ UNCHANGED << line, pkts, frameVars, xferVars >>
    \/ \E ok \in BOOLEAN : ReqSend(ok) /\ UNCHANGED << line, pkts, frameVars, xferVars >>
    \/ \E o \in RecvOutcomes(conn, serial_no) : ReqRecv(o) /\ UNCHANGED << line, pkts, frameVars, xferVars >>

Spec == Init /\ [][Next]_vars


(* ------------- a device that answers what it is sent ------------------- *)

\* the device takes the next packet the host wrote and answers it: a sync
\* packet with a sync packet of the same serial, a request with an Ok response
\* of the same serial
DeviceReply(m) ==
    IF m.sync
    THEN Packet(TRUE, m.serial, Absent)
    ELSE Packet(FALSE, m.serial, "StatusOk")

DeviceAnswer ==
    /\ wire # << >>
    /\ rx' = Append(rx, DeviceReply(Head(wire)))
    /\ wire' = Tail(wire)
    /\ UNCHANGED << in_flight, conn, prev_ok, call_serial, ctor_ops, serial_no, pc, reqLocals, syncLocals, outcome, calls,
                    established, req_sent, sync_sent, sync_draws, sync_reply,
                    last_rx, only_timeouts >>

\* a receive on a line that buffers: the first frame waiting, a timeout when
\* there is none by the deadline
NextFrame == IF rx = << >> THEN Timeout ELSE Head(rx)
Consume == rx' = (IF rx = << >> THEN rx ELSE Tail(rx)) /\ UNCHANGED wire
Written(sync, serial) == [ sync |-> sync, serial |-> serial ]

\* a connection on which a request has succeeded (handshake on s, one request),
\* and the device, rebooting, has since sent a sync packet of its own accord
RebootInit ==
    /\ conn \in { "Serial", "BadgeUSB" }
    /\ \E s \in SerialSamples :
          /\ serial_no = Inc32(s)
          /\ established = Inc32(s)
          /\ req_packet = Inc32(s)
          /\ resp_packet = Packet(FALSE, Inc32(s), "StatusOk")
          /\ last_rx = Seen(Packet(FALSE, Inc32(s), "StatusOk"), "req")
          /\ sync_reply = Seen(Packet(TRUE, s, Absent), "sync")
          /\ sync_sent = << s >>
    /\ \E u \in SerialSamples \cup { InitialSerial } :
          rx = << Packet(TRUE, u, Absent) >>
    /\ wire = << >>
    /\ pc = "idle"
    /\ tries = 1
    /\ attempt = 1
    /\ last_err = "None"
    /\ sync_caller = "ctor"
    /\ sync_i = 0
    /\ sync_last_err = "None"
    /\ result = "Ok"
    /\ err_msg = ""
    /\ err_code = "none"
    /\ returned = "StatusOk"
    /\ calls = 0
    /\ req_sent = 1
    /\ sync_draws = 1
    /\ only_timeouts = FALSE
    /\ ctor_ops = CtorOrder
    /\ in_flight = 0
    /\ prev_ok = FALSE
    /\ poisoned = FALSE
    /\ call_serial = InitialSerial
    /\ pkts = 0
    /\ FrameIdle
    /\ XferIdle

RebootNext ==
    \/ \E t \in 1 .. MaxTries : Call(t) /\ UNCHANGED << line, pkts, frameVars, xferVars >>
    \/ /\ ReqSend(TRUE)
       /\ wire' = Append(wire, Written(FALSE, serial_no))
       /\ UNCHANGED << rx, pkts, frameVars, xferVars >>
    \/ ReqRecv(NextFrame) /\ Consume /\ UNCHANGED << pkts, frameVars, xferVars >>
    \/ /\ SyncSend(TRUE)
       /\ wire' = Append(wire, Written(TRUE, serial_no))
       /\ UNCHANGED << rx, pkts, frameVars, xferVars >>
    \/ SyncRecv(NextFrame) /\ Consume /\ UNCHANGED << pkts, frameVars, xferVars >>
    \/ DeviceAnswer /\ UNCHANGED << pkts, frameVars, xferVars >>

SpecReboot == RebootInit /\ [][RebootNext]_vars

(* ------------- a device that answers, but may answer late -------------- *)

\* a connection whose constructor has just returned: the handshake on s
\* succeeded, nothing is on the line
LateInit ==
    /\ conn \in { "Serial", "BadgeUSB" }
    /\ \E s \in SerialSamples :
          /\ serial_no = s
          /\ established = s
          /\ sync_sent = << s >>
          /\ sync_reply = Seen(Packet(TRUE, s, Absent), "sync")
          /\ last_rx = Seen(Packet(TRUE, s, Absent), "sync")
    /\ rx = << >>
    /\ wire = << >>
    /\ pc = "idle"
    /\ tries = 0
    /\ attempt = 0
    /\ last_err = "None"
    /\ req_packet = InitialSerial
    /\ resp_packet = NoPacket
    /\ sync_caller = "ctor"
    /\ sync_i = 0
    /\ sync_last_err = "None"
    /\ result = "Ok"
    /\ err_msg = ""
    /\ err_code = "none"
    /\ returned = NoResponse
    /\ calls = 0
    /\ req_sent = 0
    /\ sync_draws = 1
    /\ only_timeouts = FALSE
    /\ ctor_ops = CtorOrder
    /\ in_flight = 0
    /\ prev_ok = FALSE
    /\ poisoned = FALSE
    /\ call_serial = InitialSerial
    /\ pkts = 0
    /\ FrameIdle
    /\ XferIdle

\* the host calls, sends and receives; the device answers every request frame
\* it was sent, once, at any time after it was sent
LateNext ==
    \/ \E t \in 1 .. MaxTries : Call(t) /\ UNCHANGED << line, pkts, frameVars, xferVars >>
    \/ /\ ReqSend(TRUE)
       /\ wire' = Append(wire, Written(FALSE, serial_no))
       /\ UNCHANGED << rx, pkts, frameVars, xferVars >>
    \/ ReqRecv(NextFrame) /\ Consume /\ UNCHANGED << pkts, frameVars, xferVars >>
    \/ DeviceAnswer /\ UNCHANGED << pkts, frameVars, xferVars >>

SpecLate == LateInit /\ [][LateNext]_vars

(* ------------------ every call comes to an end ------------------------- *)

\* the ways a receive attempt can end, with one status code for each way
\* simple_request can leave its match statement
TermOutcomes(c, cur) ==
    { o \in RecvOutcomes(c, cur) : o.response \in { Absent, "StatusOk", "StatusNotFound" } }

\* the step the host takes next inside simple_request: a write that the
\* transport takes or refuses, or a receive that ends in any of its outcomes;
\* a packet that was written is counted
HostStep ==
    \/ \E ok \in BOOLEAN :
          /\ ReqSend(ok)
          /\ pkts' = IF ok THEN pkts + 1 ELSE pkts
          /\ UNCHANGED << line, frameVars, xferVars >>
    \/ \E o \in TermOutcomes(conn, serial_no) :
          ReqRecv(o) /\ UNCHANGED << line, pkts, frameVars, xferVars >>
    \/ \E ok \in BOOLEAN :
          /\ SyncSend(ok)
          /\ pkts' = IF ok THEN pkts + 1 ELSE pkts
          /\ UNCHANGED << line, frameVars, xferVars >>
    \/ \E o \in TermOutcomes(conn, serial_no) :
          SyncRecv(o) /\ UNCHANGED << line, pkts, frameVars, xferVars >>

\* the first call on the connection, from its start to its end; calls are
\* followed one at a time, Call setting every local of simple_request anew
TermNext ==
    \/ \E t \in 1 .. MaxTries :
          /\ calls = 0
          /\ Call(t)
          /\ pkts' = 0
          /\ UNCHANGED << line, frameVars, xferVars >>
    \/ HostStep

\* the host is one thread: a write returns and a receive ends by its
\* deadline, so the step that is next is taken
SpecTerm == LateInit /\ [][TermNext]_vars /\ WF_vars(HostStep)

(* ----------------------------- the frame codec ------------------------- *)

\* bitwise exclusive or of two naturals
RECURSIVE Xor(_, _)
Xor(a, b) ==
    IF a = 0 THEN b
    ELSE IF b = 0 THEN a
    ELSE ((a + b) % 2) + 2 * Xor(a \div 2, b \div 2)

\* 32-bit values are held as two 16-bit limbs <<hi, lo>>
Xor32(x, y) == << Xor(x[1], y[1]), Xor(x[2], y[2]) >>
Shr1(x) == << x[1] \div 2, (x[2] \div 2) + (x[1] % 2) * (LimbMod \div 2) >>
Shr8(x) == << x[1] \div ByteMod, (x[2] \div ByteMod) + (x[1] % ByteMod) * ByteMod >>

\* zlib's crc32: the reflected polynomial 0xEDB88320, initial value and final
\* exclusive or 0xFFFFFFFF, one table step per byte
CrcPoly == << 60856, 33568 >>
RECURSIVE CrcBits(_, _)
CrcBits(c, k) ==
    IF k = 0 THEN c
    ELSE CrcBits(IF c[2] % 2 = 1 THEN Xor32(CrcPoly, Shr1(c)) ELSE Shr1(c), k - 1)
CrcTable == [ n \in 0 .. ByteMod - 1 |-> CrcBits(<< 0, n >>, 8) ]
RECURSIVE CrcUpdate(_, _)
CrcUpdate(c, data) ==
    IF data = << >> THEN c
    ELSE CrcUpdate(Xor32(CrcTable[Xor(c[2] % ByteMod, Head(data))], Shr8(c)),
                   Tail(data))
crc32(data) ==
    LET c == CrcUpdate(<< LimbMod - 1, LimbMod - 1 >>, data)
    IN  << LimbMod - 1 - c[1], LimbMod - 1 - c[2] >>

\* struct.pack("<I", x) and struct.unpack("<I", b)[0]
PackLE(x) ==
    << x[2] % ByteMod, x[2] \div ByteMod, x[1] % ByteMod, x[1] \div ByteMod >>
UnpackLE(b) == << b[3] + ByteMod * b[4], b[1] + ByteMod * b[2] >>

\* cobs.encode for data of fewer than 254 bytes: every run of non-zero bytes is
\* preceded by its length plus one, the zeros themselves are left out
RECURSIVE CobsEncodeFrom(_, _)
CobsEncodeFrom(data, block) ==
    IF data = << >> THEN << Len(block) + 1 >> \o block
    ELSE IF Head(data) = 0
         THEN (<< Len(block) + 1 >> \o block) \o CobsEncodeFrom(Tail(data), << >>)
         ELSE CobsEncodeFrom(Tail(data), Append(block, Head(data)))
CobsEncode(data) == CobsEncodeFrom(data, << >>)

HasZero(s) == \E i \in DOMAIN s : s[i] = 0

\* cobs.decode: DecodeError on a zero byte in the input and on a length code
\* that points past the end of the input
CobsError == << -1 >>
RECURSIVE CobsDecodeFrom(_, _, _)
CobsDecodeFrom(in, idx, acc) ==
    LET length == in[idx]
        end == idx + length
        copy == SubSeq(in, idx + 1, IF end - 1 > Len(in) THEN Len(in) ELSE end - 1)
    IN  IF length = 0 \/ HasZero(copy) THEN CobsError
        ELSE IF end > Len(in) + 1 THEN CobsError
        ELSE IF end <= Len(in)
             THEN CobsDecodeFrom(in, end,
                     IF length < ByteMod - 1 THEN Append(acc \o copy, 0)
                                             ELSE acc \o copy)
             ELSE acc \o copy
CobsDecode(in) == IF in = << >> THEN << >> ELSE CobsDecodeFrom(in, 1, << >>)

\* send_frame: what it writes for a payload, the delimiter included
FrameBody(payload) == CobsEncode(payload \o PackLE(crc32(payload)))
FrameBytes(payload) == FrameBody(payload) \o << 0 >>

\* how a recv_frame can end: kind is "payload" when it returns, the error
\* otherwise; diag is what the message of the CRC error names
FrameResult(kind, payload) == [ kind |-> kind, payload |-> payload, diag |-> << >> ]

\* recv_frame: `len(buffer) < 7`
TooShort(buffer) == Len(buffer) < MinFrameLen

\* a checksum test that passes every frame
EccMatches_Always(ecc_msg, payload) == TRUE

\* recv_frame: `ecc_msg != ecc_calc`, negated
EccMatches(ecc_msg, payload) == ecc_msg = crc32(payload)

\* the CRC error: f"CRC32 mismatch; received 0x{ecc_msg:08x}, calculated
\* 0x{ecc_calc:08x}"
CrcMismatch(ecc_msg, ecc_calc) ==
    [ FrameResult("crc", << >>) EXCEPT !.diag = << ecc_msg, ecc_calc >> ]

\* the checks after the length test: COBS, then the checksum
DecodeChecked(buffer) ==
    LET decoded == CobsDecode(buffer)
    IN  IF decoded = CobsError THEN FrameResult("cobs", << >>)
        ELSE IF Len(decoded) < EccLen THEN FrameResult("struct", << >>)
        ELSE LET payload == SubSeq(decoded, 1, Len(decoded) - EccLen)
                 ecc_msg == UnpackLE(SubSeq(decoded, Len(decoded) - EccLen + 1,
                                            Len(decoded)))
             IN  IF EccMatches(ecc_msg, payload)
                 THEN FrameResult("payload", payload)
                 ELSE CrcMismatch(ecc_msg, crc32(payload))

\* a decoder that tries COBS before it looks at the length
DecodeFrame_CobsFirst(buffer) ==
    IF buffer # << >> /\ CobsDecode(buffer) = CobsError THEN FrameResult("cobs", << >>)
    ELSE IF TooShort(buffer) THEN FrameResult("short", << >>)
    ELSE DecodeChecked(buffer)

\* recv_frame from "Try to decode the frame" on: buffer is the bytes before
\* the delimiter
DecodeFrame(buffer) ==
    IF TooShort(buffer) THEN FrameResult("short", << >>)
    ELSE DecodeChecked(buffer)

\* self.rxbuf.find(b'\0'), counted from 1; 0 when there is none
FindZero(buf) ==
    IF HasZero(buf)
    THEN CHOOSE i \in DOMAIN buf : buf[i] = 0 /\ \A j \in 1 .. i - 1 : buf[j] # 0
    ELSE 0

\* a buffer split that loses the byte after the delimiter
RestAfter_DropsOne(buf, zero) == SubSeq(buf, zero + 2, Len(buf))

\* self.rxbuf[zero+1:]
RestAfter(buf, zero) == SubSeq(buf, zero + 1, Len(buf))

(* ------------------ frames over a stream of bytes ---------------------- *)

PayloadBytes == { 0, 7 }
Payloads == UNION { [ 1 .. n -> PayloadBytes ] : n \in 0 .. MaxPayload }
\* the first frame of a stream carries any of the payloads, the frames behind
\* it one of these
FollowPayloads == { << 7, 7 >>, << 0, 7 >> }
\* the values a byte of the stream may be changed to on the way
ModBytes == (0 .. 15) \cup { 128, 255 }

RECURSIVE Stream(_)
Stream(q) == IF q = << >> THEN << >> ELSE FrameBytes(Head(q)) \o Stream(Tail(q))

\* nothing of what was sent has been read yet, nothing else is on the way
Untouched == rxbuf = << >> /\ pending = Stream(fr_sent)

FrameInit ==
    /\ CtorInit
    /\ conn = "Serial"
    /\ FrameIdle
    /\ XferIdle

\* send_frame(payload) by the peer: the encoded frame, then the delimiter
FrSend(payload) ==
    /\ fr_mod = "none"
    /\ fr_expect.n + Len(fr_sent) < MaxFrames
    /\ fr_expect.n + Len(fr_sent) > 0 => payload \in FollowPayloads
    /\ pending' = pending \o FrameBytes(payload)
    /\ fr_sent' = Append(fr_sent, payload)
    /\ UNCHANGED << rxbuf, fr_expect, fr_got, fr_mod, fr_before >>

\* one byte of the body of the one frame on the way is changed to b
FrModify(i, b) ==
    /\ fr_mod = "none"
    /\ Len(fr_sent) = 1
    /\ Untouched
    /\ i \in 1 .. Len(pending) - 1
    /\ b # pending[i]
    /\ pending' = [ pending EXCEPT ![i] = b ]
    /\ fr_mod' = IF b = 0 THEN "zero" ELSE "byte"
    /\ fr_got' = FrameResult("none", << >>)
    /\ UNCHANGED << rxbuf, fr_sent, fr_expect, fr_before >>

\* a delimiter arrives ahead of the frames on the way
FrLeadZero ==
    /\ fr_mod = "none"
    /\ fr_sent # << >>
    /\ Untouched
    /\ pending' = << 0 >> \o pending
    /\ fr_mod' = "lead"
    /\ fr_got' = FrameResult("none", << >>)
    /\ UNCHANGED << rxbuf, fr_sent, fr_expect, fr_before >>

\* how much of what is on the way read_all may have handed over when the loop
\* of recv_frame is left: nothing, all of it, up to and including a
\* delimiter, or up to a delimiter without it
ArrivalCuts(p) ==
    { 0, Len(p) } \cup { i \in DOMAIN p : p[i] = 0 }
                  \cup { i - 1 : i \in { j \in DOMAIN p : p[j] = 0 } }

\* recv_frame(timeout). ran says whether `time.time() < timeout` held when the
\* loop was first tested (it does not for a timeout of 0 or less); k is the
\* number of bytes read_all has handed over by the time the loop is left.
\* When the body never ran, `zero` was never assigned and `if zero == -1`
\* raises UnboundLocalError.
RecvFrame(k, ran) ==
    LET buf == rxbuf \o SubSeq(pending, 1, k)
        zero == FindZero(buf)
        buffer == SubSeq(buf, 1, zero - 1)
        takes == ran /\ zero # 0 /\ buffer # << >> /\ fr_sent # << >>
    IN  /\ ~ran => k = 0
        /\ pending' = SubSeq(pending, k + 1, Len(pending))
        /\ fr_before' = buf
        /\ IF ~ran
           THEN /\ rxbuf' = rxbuf
                /\ fr_got' = FrameResult("unbound", << >>)
           ELSE IF zero = 0
           THEN /\ rxbuf' = buf
                /\ fr_got' = FrameResult("timeout", << >>)
           ELSE /\ rxbuf' = RestAfter(buf, zero)
                /\ fr_got' = DecodeFrame(buffer)
        /\ fr_expect' = IF takes
                           THEN [ n |-> fr_expect.n + 1, took |-> TRUE,
                                  payload |-> Head(fr_sent) ]
                           ELSE [ fr_expect EXCEPT !.took = FALSE ]
        /\ fr_sent' = IF takes THEN Tail(fr_sent) ELSE fr_sent
        /\ UNCHANGED fr_mod

FrameNext ==
    \/ \E payload \in Payloads : FrSend(payload) /\ UNCHANGED << linkVars, xferVars >>
    \/ \E i \in 1 .. 2 * MaxPayload + EccLen + 2, b \in ModBytes :
          FrModify(i, b) /\ UNCHANGED << linkVars, xferVars >>
    \/ FrLeadZero /\ UNCHANGED << linkVars, xferVars >>
    \/ \E k \in ArrivalCuts(pending), ran \in BOOLEAN :
          RecvFrame(k, ran) /\ UNCHANGED << linkVars, xferVars >>

SpecFrame == FrameInit /\ [][FrameNext]_vars

(* ------------------------------ the facade ----------------------------- *)

\* how a simple_request made by the facade may end: with a response, or with
\* one of the exceptions simple_request raises
RequestOutcomes == { "Ok", "NoSpaceError", "TimeoutError", "CommunicationError" }

Uploads == { "appfs_upload", "fs_upload" }
Downloads == { "appfs_download", "fs_download" }
Lists == { "nvs_list", "appfs_list", "fs_list" }

\* the sizes of the files transferred: around every multiple of the chunk size
FileSizes ==
    { k * CHUNK_MAX_SIZE + d : k \in 0 .. MaxChunks - 1, d \in { 0, 1, CHUNK_MAX_SIZE - 1 } }
        \cup { MaxChunks * CHUNK_MAX_SIZE }

\* a request handed to simple_request and how the call ended
Req(kind, position, length, res) ==
    [ kind |-> kind, position |-> position, length |-> length, res |-> res,
      page |-> << >>, total |-> 0 ]
\* a list request with the page and the total of its response
ListReq(offset, page, total, res) ==
    [ kind |-> "List", position |-> offset, length |-> Len(page), res |-> res,
      page |-> page, total |-> total ]

\* a facade that goes on to Finish after an exception
Fails_ThenFinish(cls, msg) ==
    /\ fpc' = "finish"
    /\ ferr' = << cls, msg >>

\* the facade lets the exception of simple_request through
Fails(cls, msg) ==
    /\ fpc' = "failed"
    /\ ferr' = << cls, msg >>

\* the operations that make one request and return
SimpleOps ==
    { "start_app", "nvs_read", "nvs_write", "nvs_delete", "appfs_stat",
      "appfs_crc32", "appfs_delete", "fs_stat", "fs_crc32", "fs_delete",
      "fs_mkdir", "fs_rmdir" }

\* the arguments of an operation that end up in fields of the request
ArgFields(o) ==
    CASE o = "start_app" -> { "slug", "app_arg" }
      [] o \in { "nvs_read", "nvs_delete" } -> { "namespace", "key" }
      [] o = "nvs_write" -> { "namespace", "key", "nvs_string", "nvs_blob" }
      [] o = "nvs_list" -> { "namespace" }
      [] o \in { "appfs_stat", "appfs_crc32", "appfs_delete", "appfs_download" } -> { "slug" }
      [] o = "appfs_upload" -> { "slug", "title", "version" }
      [] o \in { "fs_list", "fs_stat", "fs_crc32", "fs_delete", "fs_mkdir", "fs_rmdir",
                 "fs_upload", "fs_download" } -> { "path" }
      [] OTHER -> { }

StringFields == { "namespace", "key", "slug", "title", "app_arg", "path", "nvs_string" }

\* the largest length (for the version: the largest value) the file names for
\* a field: the tests of nvs_ns, app_arg, appfs_slug, appfs_title, appfs_ver,
\* fs_path and parse_nvs_value, and for a blob the docstring of nvs_write
Limit(f) ==
    CASE f \in { "namespace", "key" } -> 15
      [] f = "slug"       -> 47
      [] f = "title"      -> 63
      [] f = "app_arg"    -> 127
      [] f = "path"       -> 1023
      [] f = "nvs_string" -> 4095
      [] f = "nvs_blob"   -> 4096
      [] f = "version"    -> 65535
      [] OTHER            -> 0

\* an argument: the field it goes to, its length in bytes (for the version:
\* its value) and whether it holds a NUL
Arg(f, n, nul) == [ field |-> f, len |-> n, nul |-> nul ]

\* the arguments looked at: at the limit, one past it, and with a NUL inside
Samples(f) ==
    { Arg(f, Limit(f), FALSE), Arg(f, Limit(f) + 1, FALSE) }
        \cup (IF f \in StringFields THEN { Arg(f, Limit(f), TRUE) } ELSE { })
ArgSamples(o) ==
    IF ArgFields(o) = { } THEN { NoArg } ELSE UNION { Samples(f) : f \in ArgFields(o) }

\* the argument is within the bound of its field and holds no NUL
WithinBounds(a) == a.len <= Limit(a.field) /\ ~a.nul

\* the command line: the type functions argparse runs on the arguments, and
\* parse_nvs_value for the value of `nvs write`
CliAccepts(a) ==
    CASE a.field \in { "namespace", "key" } -> a.len > 0 /\ a.len <= 15 /\ ~a.nul
      [] a.field = "app_arg"    -> a.len = 0 \/ (a.len <= 127 /\ ~a.nul)
      [] a.field = "slug"       -> a.len > 0 /\ a.len <= 47 /\ ~a.nul
      [] a.field = "title"      -> a.len > 0 /\ a.len <= 63 /\ ~a.nul
      [] a.field = "version"    -> a.len >= 0 /\ a.len <= 65535
      [] a.field = "path"       -> ~a.nul /\ a.len <= 1023
      [] a.field = "nvs_string" -> a.len <= 4095
      [] OTHER                  -> TRUE

\* the methods of Badgelink hand their arguments to the request message as
\* they are: none of them tests a length or looks for a NUL
FacadeAccepts(o, a) == TRUE

\* the call gets as far as simple_request
Accepted(o, a, v) == FacadeAccepts(o, a) /\ (v = "cli" => CliAccepts(a))

\* the call ends before the facade makes a request
Rejects ==
    /\ fpc' = "rejected"
    /\ ferr' = << "SystemExit", "" >>

\* what may be at the path the caller names: no file, or a file with content
HostFiles == { "absent", "old" }

\* open(path, "wb"): the file is created when there is none and cut to no
\* bytes when there is one
OpenWb(f) == "empty"

\* `with open(path, "wb") as fd:`, the first statement of appfs_download and
\* fs_download; the other operations open no file for writing
OpensFile(o, f) ==
    IF o \in Downloads THEN [ before |-> f, now |-> OpenWb(f) ] ELSE NoFile

\* a facade operation of several requests is called
Start(o, a, v) ==
    /\ fpc = "idle"
    /\ \E f \in HostFiles :
          host_file' = IF Accepted(o, a, v) THEN OpensFile(o, f) ELSE NoFile
    /\ op' = o
    /\ arg' = a
    /\ via' = v
    /\ pos' = 0
    /\ out' = << >>
    /\ written' = << >>
    /\ reqs' = << >>
    /\ IF Accepted(o, a, v)
       THEN /\ fpc' = IF o \in Lists THEN "list" ELSE "init"
            /\ ferr' = << "none", "" >>
       ELSE Rejects

\* an operation of one request, from the call to its end
SimpleCall(o, a, v, res) ==
    /\ fpc = "idle"
    /\ o \in SimpleOps
    /\ op' = o
    /\ arg' = a
    /\ via' = v
    /\ pos' = 0
    /\ out' = << >>
    /\ written' = << >>
    /\ UNCHANGED << size, host_file >>
    /\ IF ~Accepted(o, a, v)
       THEN reqs' = << >> /\ Rejects
       ELSE /\ reqs' = << Req("Simple", 0, 0, res) >>
            /\ IF res = "Ok"
               THEN fpc' = "done" /\ ferr' = << "none", "" >>
               ELSE Fails(res, "")

\* fd.read(CHUNK_MAX_SIZE) at offset p of a file of sz bytes
ReadLen(p, sz) == IF sz - p < CHUNK_MAX_SIZE THEN sz - p ELSE CHUNK_MAX_SIZE

\* an upload loop that stops one chunk early
MoreChunks_StopsEarly(p, sz) == p + CHUNK_MAX_SIZE < sz

\* `for pos in range(0, size, CHUNK_MAX_SIZE)`: there is a chunk at p
MoreChunks(p, sz) == p < sz

\* appfs_upload, fs_upload: the size is taken from the file, the initiating
\* request announces it
UploadInit(sz, res) ==
    /\ op \in Uploads
    /\ fpc = "init"
    /\ size' = sz
    /\ reqs' = Append(reqs, Req("Upload", 0, sz, res))
    /\ pos' = 0
    /\ UNCHANGED << op, arg, via, host_file, out, written >>
    /\ IF res = "Ok"
       THEN /\ fpc' = IF MoreChunks(0, sz) THEN "chunk" ELSE "finish"
            /\ UNCHANGED ferr
       ELSE Fails(res, "")

\* one iteration of the upload loop
UploadChunk(res) ==
    /\ op \in Uploads
    /\ fpc = "chunk"
    /\ reqs' = Append(reqs, Req("Chunk", pos, ReadLen(pos, size), res))
    /\ UNCHANGED << op, arg, via, host_file, size, out, written >>
    /\ IF res = "Ok"
       THEN /\ pos' = pos + CHUNK_MAX_SIZE
            /\ fpc' = IF MoreChunks(pos + CHUNK_MAX_SIZE, size) THEN "chunk" ELSE "finish"
            /\ UNCHANGED ferr
       ELSE /\ UNCHANGED pos
            /\ Fails(res, "")

\* simple_request(Request(xfer_ctrl=XferFinish)), of uploads and downloads
Finish(res) ==
    /\ op \in Uploads \cup Downloads
    /\ fpc = "finish"
    /\ reqs' = Append(reqs, Req("Finish", 0, 0, res))
    /\ UNCHANGED << op, arg, via, host_file, size, pos, out, written >>
    /\ IF res = "Ok"
       THEN fpc' = "done" /\ UNCHANGED ferr
       ELSE Fails(res, "")

\* the sizes and lengths a device may report: those of the files, and a
\* chunk of no bytes, of one byte, of a full chunk or of what is left
ChunkLens(p, sz) ==
    { 0, 1, CHUNK_MAX_SIZE } \cup (IF sz > p THEN { sz - p } ELSE { })
ChunkPositions(p) == { p, p + 1, 0 }

\* appfs_download, fs_download: the initiating request; sz is the size in
\* its response
DownloadInit(sz, res) ==
    /\ op \in Downloads
    /\ fpc = "init"
    /\ reqs' = Append(reqs, Req("Download", 0, 0, res))
    /\ pos' = 0
    /\ UNCHANGED << op, arg, via, host_file, out, written >>
    /\ IF res = "Ok"
       THEN /\ size' = sz
            /\ fpc' = IF 0 < sz THEN "chunk" ELSE "finish"
            /\ UNCHANGED ferr
       ELSE /\ UNCHANGED size
            /\ Fails(res, "")

\* fd.write(chunk.data): the file after `length` bytes were written to it
AfterWrite(f, length) == IF length > 0 THEN "data" ELSE f

\* a position test that lets every chunk through
PositionOk_Always(position, p) == TRUE

\* `chunk.position != pos`, negated
PositionOk(position, p) == position = p

\* one iteration of the download loop; the response carries a chunk of
\* `length` bytes for `position`
DownloadChunk(res, position, length) ==
    /\ op \in Downloads
    /\ fpc = "chunk"
    /\ Len(reqs) < MaxRequests
    /\ reqs' = Append(reqs, IF res = "Ok" THEN Req("Continue", position, length, res)
                                         ELSE Req("Continue", 0, 0, res))
    /\ UNCHANGED << op, arg, via, size, out >>
    /\ IF res # "Ok"
       THEN /\ UNCHANGED << pos, written, host_file >>
            /\ Fails(res, "")
       ELSE IF ~PositionOk(position, pos)
       THEN /\ UNCHANGED << pos, written, host_file >>
            /\ Fails("MalformedResponseError", "Incorrect chunk position")
       ELSE /\ written' = Append(written, << position, length >>)
            /\ host_file' = [ host_file EXCEPT !.now = AfterWrite(host_file.now, length) ]
            /\ pos' = pos + length
            /\ fpc' = IF pos + length < size THEN "chunk" ELSE "finish"
            /\ UNCHANGED ferr

\* the pages and totals a device may report
PageSamples == { << >>, << "a" >>, << "a", "b" >> }
TotalSamples == { 0, 1, 2, 5 }

\* the list_offset of the next list request: nvs_list and fs_list keep
\* `offset`, appfs_list takes len(all_meta) (and 0, the default of the field,
\* for its first request)
ListOffset(o, p, collected) == IF o = "appfs_list" THEN Len(collected) ELSE p

\* nvs_list, appfs_list, fs_list: one request and what follows it; the
\* response carries `page` and reports `total` entries
ListRequest(res, page, total) ==
    /\ op \in Lists
    /\ fpc = "list"
    /\ Len(reqs) < MaxRequests
    /\ reqs' = Append(reqs, IF res = "Ok"
                             THEN ListReq(ListOffset(op, pos, out), page, total, res)
                             ELSE ListReq(ListOffset(op, pos, out), << >>, 0, res))
    /\ UNCHANGED << op, arg, via, host_file, written >>
    /\ IF res = "Ok"
       THEN /\ out' = out \o page
            /\ pos' = pos + Len(page)
            /\ size' = total
            /\ fpc' = IF pos + Len(page) >= total THEN "done" ELSE "list"
            /\ UNCHANGED ferr
       ELSE /\ UNCHANGED << out, pos, size >>
            /\ Fails(res, "")

FacadeInit ==
    /\ CtorInit
    /\ conn = "Serial"
    /\ FrameIdle
    /\ XferIdle

FacadeNext ==
    \/ \E o \in Uploads \cup Downloads \cup Lists :
          Start(o, NoArg, "api") /\ UNCHANGED << size, linkVars, frameVars >>
    \/ \E sz \in FileSizes, res \in RequestOutcomes :
          UploadInit(sz, res) /\ UNCHANGED << linkVars, frameVars >>
    \/ \E res \in RequestOutcomes : UploadChunk(res) /\ UNCHANGED << linkVars, frameVars >>
    \/ \E res \in RequestOutcomes : Finish(res) /\ UNCHANGED << linkVars, frameVars >>
    \/ \E sz \in FileSizes, res \in RequestOutcomes :
          DownloadInit(sz, res) /\ UNCHANGED << linkVars, frameVars >>
    \/ \E res \in RequestOutcomes, position \in ChunkPositions(pos),
          length \in ChunkLens(pos, size) :
          DownloadChunk(res, position, length) /\ UNCHANGED << linkVars, frameVars >>
    \/ \E res \in RequestOutcomes, page \in PageSamples, total \in TotalSamples :
          ListRequest(res, page, total) /\ UNCHANGED << linkVars, frameVars >>

SpecFacade == FacadeInit /\ [][FacadeNext]_vars

\* the facade called with arguments at and past their bounds, from the
\* command line of the file and from other code
ArgsNext ==
    \/ \E o \in Uploads \cup Downloads \cup Lists, v \in { "cli", "api" } :
          \E a \in ArgSamples(o) :
             Start(o, a, v) /\ UNCHANGED << size, linkVars, frameVars >>
    \/ \E o \in SimpleOps, v \in { "cli", "api" }, res \in RequestOutcomes :
          \E a \in ArgSamples(o) :
             SimpleCall(o, a, v, res) /\ UNCHANGED << linkVars, frameVars >>
    \/ \E sz \in FileSizes, res \in RequestOutcomes :
          UploadInit(sz, res) /\ UNCHANGED << linkVars, frameVars >>
    \/ \E res \in RequestOutcomes : UploadChunk(res) /\ UNCHANGED << linkVars, frameVars >>
    \/ \E res \in RequestOutcomes : Finish(res) /\ UNCHANGED << linkVars, frameVars >>
    \/ \E sz \in FileSizes, res \in RequestOutcomes :
          DownloadInit(sz, res) /\ UNCHANGED << linkVars, frameVars >>
    \/ \E res \in RequestOutcomes, position \in ChunkPositions(pos),
          length \in ChunkLens(pos, size) :
          DownloadChunk(res, position, length) /\ UNCHANGED << linkVars, frameVars >>
    \/ \E res \in RequestOutcomes, page \in PageSamples, total \in TotalSamples :
          ListRequest(res, page, total) /\ UNCHANGED << linkVars, frameVars >>

SpecArgs == FacadeInit /\ [][ArgsNext]_vars

(* ======================================================================= *)
(*                               properties                                *)
(* ======================================================================= *)

\* a simple_request call has ended
CallEnded == pc = "idle" /\ calls > 0 /\ result # "none"

\* the call ended by way of the checks after the loop: the loop was left by
\* break on a packet without the sync flag, or ran out right after a handshake
\* that succeeded, with no error pending; resp_packet is then the reply taken
ReplyTaken ==
    /\ CallEnded
    /\ last_err = "None"
    /\ last_rx.kind = "packet"
    /\ \/ last_rx.at = "req" /\ ~last_rx.sync
       \/ last_rx.at = "sync" /\ last_rx.sync /\ last_rx.serial = serial_no
                                /\ attempt = tries

\* C1: when the packet taken as the reply carries another serial than the
\* request packet sent, the call fails with CommunicationError "Serial
\* mismatch" and hands no response to the caller; a call that returns has
\* taken a packet with the request's serial.
C1_SerialMismatchFails ==
    /\ (ReplyTaken /\ resp_packet.serial # req_packet)
          => /\ result = "CommunicationError"
             /\ err_msg = "Serial mismatch"
             /\ returned = NoResponse
    /\ (CallEnded /\ result = "Ok")
          => /\ resp_packet.kind = "packet"
             /\ resp_packet.serial = req_packet

C1_Witness ==
    /\ ReplyTaken
    /\ last_rx.at = "req"
    /\ resp_packet.serial # req_packet
    /\ resp_packet.response = "StatusOk"
    /\ attempt = 1

\* C2: every request packet put on the wire carries the successor of the
\* serial established by the last completed handshake or call, the request
\* packets re-sent after a resync inside the call included.
C2_RequestSerialIsSuccessor ==
    pc = "req_recv" => req_packet = Inc32(established)

\* C3: after a successful request and a sync packet sent by the device of its
\* own accord, the next request resyncs, is sent again and returns the
\* device's value with no error, whenever the device has answered every packet
\* it was sent.
C3_RebootResyncIsTransparent ==
    (pc = "idle" /\ calls = 1 /\ tries = DefaultTries /\ wire = << >>)
        => (result = "Ok" /\ returned = "StatusOk")

\* the receive of simple_request's loop has just taken a packet with the sync flag
SyncPacketSeen == last_rx.at = "req" /\ last_rx.kind = "packet" /\ last_rx.sync

\* a handshake entered from simple_request has just succeeded (nothing was
\* received since)
ResyncDone ==
    /\ calls > 0
    /\ sync_caller = "req"
    /\ sync_reply.kind = "packet"
    /\ last_rx = sync_reply

\* C4 as stated: a sync packet received on any attempt is followed by the
\* handshake and, after it, by the request being sent again.
C4_SyncPacketAlwaysResends ==
    /\ SyncPacketSeen
          => (pc \in { "sync_send", "sync_recv" } \/ result = "DisconnectedError")
    /\ ResyncDone
          => (pc \in { "req_send", "req_recv" } \/ result = "DisconnectedError")

\* C4 amended: a sync packet received on any attempt is followed by the
\* handshake; a handshake that succeeds on an attempt other than the last is
\* followed by the request being sent again, one that succeeds on the last
\* attempt ends the call with no further request; the attempt is used up
\* either way, so no more than `tries` requests are sent.
C4_ResyncUsesAnAttempt ==
    /\ SyncPacketSeen
          => (pc \in { "sync_send", "sync_recv" } \/ result = "DisconnectedError")
    /\ (ResyncDone /\ attempt < tries)
          => (pc \in { "req_send", "req_recv" } \/ result = "DisconnectedError")
    /\ (ResyncDone /\ attempt >= tries) => (CallEnded /\ attempt = tries)
    /\ ResyncDone => (attempt >= 1 /\ req_sent <= attempt + 1)
    /\ pc = "req_recv" => req_sent = attempt + 1
    /\ req_sent <= tries

C4_Witness ==
    /\ ResyncDone
    /\ pc = "req_recv"
    /\ req_sent = 2
    /\ tries = 2

\* C5: when every receive attempt of a call times out (and every write is
\* taken by the transport), the request packet has been sent exactly `tries`
\* times and the call fails with Timeout; no call sends it more than `tries`
\* times.
C5_AllTimeouts ==
    /\ req_sent <= tries
    /\ (CallEnded /\ only_timeouts /\ result # "DisconnectedError")
          => (req_sent = tries /\ result = "TimeoutError")

C5_Witness ==
    /\ CallEnded
    /\ only_timeouts
    /\ result = "TimeoutError"
    /\ tries = 3
    /\ req_sent = 3

\* C6: only a receive timeout leads to another attempt. A frame error, a
\* failing read or an invalid sync reply ends the operation in the step that
\* met it, a packet without the sync flag taken in simple_request's loop ends
\* the call (with the response or with the error of the checks), an operation
\* that has failed sends nothing more, and a further request or sync packet is
\* only ever sent after a timeout or, for a request, after a resync.
C6_OnlyTimeoutIsRetried ==
    /\ last_rx.kind \in { "short", "cobs", "crc" }
          => /\ pc \in { "idle", "dead" }
             /\ result = "CommunicationError"
             /\ err_msg = FrameError(last_rx.kind)
    /\ last_rx.kind = "io_error"
          => (pc \in { "idle", "dead" } /\ result = TransportError(conn))
    /\ (last_rx.at = "sync" /\ last_rx.kind = "packet"
            /\ ~(last_rx.sync /\ last_rx.serial = serial_no))
          => /\ pc \in { "idle", "dead" }
             /\ result = "CommunicationError"
             /\ err_msg = "Invalid sync"
    /\ (last_rx.at = "req" /\ last_rx.kind = "packet" /\ ~last_rx.sync)
          => CallEnded
    /\ result \notin { "none", "Ok" } => pc \in { "idle", "dead" }
    /\ (pc = "req_send" /\ attempt > 0)
          => (last_rx.kind = "timeout" \/ ResyncDone)
    /\ (pc = "sync_send" /\ sync_i > 0)
          => (last_rx.kind = "timeout" /\ last_rx.at = "sync")

C6_Witness ==
    /\ CallEnded
    /\ last_rx.at = "req"
    /\ last_rx.kind = "crc"
    /\ attempt = 1
    /\ req_sent = 2
    /\ result = "CommunicationError"

\* C7: a packet with the request's serial, without the sync flag and without
\* a `response` makes the call fail with MalformedResponse; it is not taken
\* for an Ok response and nothing is returned.
C7_MissingResponseIsMalformed ==
    (ReplyTaken /\ ~resp_packet.sync /\ resp_packet.serial = req_packet
        /\ resp_packet.response = Absent)
        => (result = "MalformedResponseError" /\ returned = NoResponse)

\* C8: each of the ten status codes other than Ok raises an error that
\* carries exactly that status code.
C8_ErrorCarriesItsStatus ==
    (ReplyTaken /\ resp_packet.serial = req_packet
        /\ resp_packet.response \in KnownStatus \ { "StatusOk" })
        => (result \in BadgeErrors /\ err_code = resp_packet.response)

\* C9: a handshake completes only on a packet with the sync flag and the
\* serial of the sync packet just sent; a packet without the flag or with
\* another serial ends it with CommunicationError "Invalid sync", no further
\* sync packet being sent.
C9_SyncNeedsValidReply ==
    /\ sync_reply.kind = "packet"
          => /\ sync_reply.sync
             /\ sync_sent # << >>
             /\ sync_reply.serial = sync_sent[Len(sync_sent)]
    /\ (pc = "idle" /\ calls = 0) => sync_reply.kind = "packet"
    /\ (last_rx.at = "sync" /\ last_rx.kind = "packet"
            /\ ~(last_rx.sync /\ sync_sent # << >>
                    /\ last_rx.serial = sync_sent[Len(sync_sent)]))
          => /\ pc \in { "idle", "dead" }
             /\ result = "CommunicationError"
             /\ err_msg = "Invalid sync"
             /\ sync_reply.kind # "packet"

C9_Witness ==
    /\ sync_reply.kind = "packet"
    /\ sync_caller = "req"
    /\ sync_i = 1
    /\ pc = "req_send"

\* C10 as stated: every attempt of the handshake sends a sync packet with a
\* serial drawn for that attempt.
C10_SerialDrawnPerAttempt ==
    pc = "sync_recv" => sync_draws = Len(sync_sent)

\* C10 amended: the handshake sends at most 3 sync packets, one per attempt,
\* and another one only after a receive timeout; the serial is drawn once,
\* before the first attempt, and every sync packet of the handshake carries
\* it; when all attempts time out the handshake fails with Timeout.
C10_SyncRetries ==
    /\ Len(sync_sent) <= SyncTries
    /\ pc \in { "sync_send", "sync_recv" }
          => /\ sync_draws = 1
             /\ \A i \in DOMAIN sync_sent : sync_sent[i] = serial_no
    /\ pc = "sync_send" => Len(sync_sent) = sync_i
    /\ pc = "sync_recv" => Len(sync_sent) = sync_i + 1
    /\ (pc = "sync_send" /\ sync_i > 0)
          => (last_rx.kind = "timeout" /\ last_rx.at = "sync")
    /\ (last_rx.at = "sync" /\ last_rx.kind = "timeout" /\ sync_i = SyncTries)
          => IF sync_caller = "ctor"
             THEN pc = "dead" /\ result = "TimeoutError"
             ELSE /\ last_err = "TimeoutError"
                  /\ \/ pc \in { "req_send", "req_recv" }
                     \/ result \in { "TimeoutError", "DisconnectedError" }

C10_Witness ==
    /\ pc = "sync_recv"
    /\ Len(sync_sent) = SyncTries
    /\ sync_draws = 1

\* C11: the constructor writes the single byte 0x00, flushes, reads all and
\* drops what it read (the receive buffer stays empty), and only then starts
\* the handshake, in this order and before any packet is sent; a request is
\* only ever sent on a connection whose constructor's handshake succeeded.
C11_CtorOrder ==
    /\ Len(ctor_ops) <= Len(CtorOrder)
    /\ ctor_ops = SubSeq(CtorOrder, 1, Len(ctor_ops))
    /\ (pc \in { "sync_send", "sync_recv" } /\ sync_caller = "ctor")
          => (Len(ctor_ops) = 3 /\ rxbuf = << >>)
    /\ (sync_sent # << >> \/ req_sent > 0) => Len(ctor_ops) >= 3
    /\ (calls > 0 \/ req_sent > 0 \/ pc \in { "req_send", "req_recv" })
          => ctor_ops = CtorOrder
    /\ ctor_ops = CtorOrder => sync_caller = "req" \/ sync_reply.kind = "packet"

C11_Witness ==
    /\ ctor_ops = CtorOrder
    /\ pc = "req_recv"
    /\ calls = 1
    /\ req_sent = 1

\* the last recv_frame found a delimiter: it returned a payload or raised
\* CommunicationError
FrameEnded == fr_got.kind \notin { "none", "timeout", "unbound" }

\* the payload of the one frame that was changed on the way
OrigPayload == IF fr_sent # << >> THEN fr_sent[1] ELSE fr_expect.payload

\* C12: what send_frame writes for a payload, fed unchanged into recv_frame,
\* comes back as that payload, for every payload, the empty one and those of
\* one byte included.
C12_FrameRoundTrip ==
    (fr_mod = "none" /\ fr_expect.took /\ FrameEnded)
        => fr_got = FrameResult("payload", fr_expect.payload)

C14_BufferKeepsWhatFollows ==
    /\ FrameEnded
          => \E z \in DOMAIN fr_before :
                /\ fr_before[z] = 0
                /\ \A j \in 1 .. z - 1 : fr_before[j] # 0
                /\ Len(rxbuf) = Len(fr_before) - z
                /\ \A j \in DOMAIN rxbuf : rxbuf[j] = fr_before[z + j]
    /\ fr_got.kind = "timeout"
          => (rxbuf = fr_before /\ \A j \in DOMAIN rxbuf : rxbuf[j] # 0)
    /\ fr_mod = "none" => rxbuf \o pending = Stream(fr_sent)
    /\ (fr_mod = "none" /\ fr_got.kind = "payload")
          => (fr_expect.took /\ fr_got.payload = fr_expect.payload)

C14_Witness ==
    /\ fr_mod = "none"
    /\ fr_expect.n = 1
    /\ fr_got.kind = "payload"
    /\ Len(fr_got.payload) = 3
    /\ rxbuf = FrameBytes(<< 0, 7 >>)

\* C15: with a delimiter ahead of a frame, recv_frame passes over it without
\* an error and returns the payload of the frame.
C15_LeadingZeroSkipped ==
    (fr_mod = "lead" /\ fr_expect.n = 0 /\ Len(fr_sent[1]) >= 2 /\ FrameEnded)
        => fr_got.kind = "payload"

\* the sum of the lengths of the first n requests of q that carry a chunk
RECURSIVE ChunkBytes(_, _)
ChunkBytes(q, n) ==
    IF n = 0 THEN 0
    ELSE ChunkBytes(q, n - 1)
            + (IF q[n].kind \in { "Chunk", "Continue" } THEN q[n].length ELSE 0)

\* the sum of the lengths of the first n writes to the host file
RECURSIVE WrittenBytes(_, _)
WrittenBytes(w, n) == IF n = 0 THEN 0 ELSE WrittenBytes(w, n - 1) + w[n][2]

FinishSent == \E i \in DOMAIN reqs : reqs[i].kind = "Finish"

\* C16: in an upload the first chunk has position 0, every chunk has for
\* position the sum of the lengths of the chunks sent before it, no chunk
\* carries more than 4096 bytes (nor none at all), and when the loop is over
\* the lengths add up to the size the initiating request announced, for every
\* size, 0 and the multiples of 4096 included.
C16_UploadChunksCoverFile ==
    op \in Uploads =>
        /\ \A i \in DOMAIN reqs :
              reqs[i].kind = "Chunk"
                 => /\ reqs[i].position = ChunkBytes(reqs, i - 1)
                    /\ reqs[i].length <= CHUNK_MAX_SIZE
                    /\ reqs[i].length > 0
                    /\ (i = 2 => reqs[i].position = 0)
        /\ (fpc \in { "finish", "done" } \/ FinishSent)
              => /\ reqs[1].kind = "Upload"
                 /\ ChunkBytes(reqs, Len(reqs)) = reqs[1].length
                 /\ reqs[1].length = size

C16_Witness ==
    /\ op = "fs_upload"
    /\ fpc = "done"
    /\ size = CHUNK_MAX_SIZE + 1
    /\ Len(reqs) = 4
    /\ reqs[3].position = CHUNK_MAX_SIZE
    /\ reqs[3].length = 1

\* C17: an upload sends the initiating request first, anything else only
\* after every request before it ended Ok, and Finish once, as the last
\* request, after all chunks; a request that fails is the last one made, its
\* error is the one the operation raises, and no chunk and no Finish follows.
C17_UploadOrderAndAbort ==
    op \in Uploads =>
        /\ reqs # << >> => reqs[1].kind = "Upload"
        /\ \A i \in DOMAIN reqs :
              /\ i > 1 => (reqs[i - 1].res = "Ok" /\ reqs[i].kind # "Upload")
              /\ reqs[i].kind = "Finish"
                    => /\ i = Len(reqs)
                       /\ ChunkBytes(reqs, i) = size
                       /\ \A j \in 1 .. i - 1 : reqs[j].kind # "Finish"
              /\ reqs[i].res # "Ok"
                    => /\ i = Len(reqs)
                       /\ fpc = "failed"
                       /\ ferr[1] = reqs[i].res
        /\ fpc = "failed" => (reqs # << >> /\ reqs[Len(reqs)].res # "Ok")
        /\ fpc = "done" => reqs[Len(reqs)].kind = "Finish"

C17_Witness ==
    /\ op = "appfs_upload"
    /\ fpc = "failed"
    /\ ferr[1] = "NoSpaceError"
    /\ size = 2 * CHUNK_MAX_SIZE
    /\ Len(reqs) = 3
    /\ reqs[3].kind = "Chunk"

\* C18: in a download every chunk written has for position the number of
\* bytes written before it, and when Finish is sent the bytes written are
\* exactly the size the initiating response reported, whatever lengths the
\* device's chunks have.
C18_DownloadMatchesSize ==
    op \in Downloads =>
        /\ \A i \in DOMAIN written : written[i][1] = WrittenBytes(written, i - 1)
        /\ (fpc = "finish" \/ FinishSent)
              => WrittenBytes(written, Len(written)) = size

\* C19: a chunk whose position is not the number of bytes received so far
\* ends the download with MalformedResponse "Incorrect chunk position": its
\* data is not written, no further Continue and no Finish is sent.
C19_WrongPositionAborts ==
    op \in Downloads =>
        /\ \A i \in DOMAIN reqs :
              (reqs[i].kind = "Continue" /\ reqs[i].res = "Ok"
                  /\ reqs[i].position # ChunkBytes(reqs, i - 1))
                 => /\ i = Len(reqs)
                    /\ fpc = "failed"
                    /\ ferr = << "MalformedResponseError", "Incorrect chunk position" >>
                    /\ Len(written) = i - 2
                    /\ WrittenBytes(written, Len(written)) = ChunkBytes(reqs, i - 1)
        /\ ferr[1] = "MalformedResponseError"
              => (reqs[Len(reqs)].kind = "Continue" /\ ~FinishSent)

C19_Witness ==
    /\ op = "fs_download"
    /\ ferr = << "MalformedResponseError", "Incorrect chunk position" >>
    /\ Len(written) = 1
    /\ reqs[Len(reqs)].position = written[1][2] + 1

\* the entries of the pages of the first n requests, in request order
RECURSIVE PagesOf(_, _)
PagesOf(q, n) == IF n = 0 THEN << >> ELSE PagesOf(q, n - 1) \o q[n].page

\* C20: the first list request has offset 0, every later one the number of
\* entries collected so far, the offsets ascend strictly, requests stop as
\* soon as the entries collected reach the total reported, and the result is
\* the pages in request order.
C20_ListOffsetsAscend ==
    op \in Lists =>
        /\ \A i \in DOMAIN reqs :
              /\ reqs[i].position = Len(PagesOf(reqs, i - 1))
              /\ i > 1 => reqs[i].position > reqs[i - 1].position
              /\ i > 1 => Len(PagesOf(reqs, i - 1)) < reqs[i - 1].total
        /\ fpc = "done"
              => /\ out = PagesOf(reqs, Len(reqs))
                 /\ Len(out) >= reqs[Len(reqs)].total

\* C21: the host has at most one packet out: a packet, request or sync, is only
\* sent when the receive attempt for the packet before it has ended (in a frame,
\* a timeout or an error), and every send is followed by a receive attempt.
C21_OneInFlight ==
    /\ in_flight <= 1
    /\ pc \in { "req_send", "sync_send" } => in_flight = 0
    /\ pc \in { "req_recv", "sync_recv" } => in_flight = 1
    /\ (pc \in { "req_send", "sync_send" } /\ (req_sent > 0 \/ sync_sent # << >>))
          => last_rx.kind \in FrameKinds \cup { "timeout", "io_error" }

C21_Witness ==
    /\ pc = "sync_recv"
    /\ sync_caller = "req"
    /\ req_sent = 2
    /\ in_flight = 1
    /\ last_rx.at = "req"
    /\ last_rx.sync

\* C22: with a device that answers every request frame once, maybe late, a
\* call that returns a response leaves no reply to it behind, neither on the
\* line nor still to come, and the call after one that returned does not fail
\* on a frame it takes for its reply.
C22_OneReplyPerRequest ==
    /\ (CallEnded /\ result = "Ok") => (rx = << >> /\ wire = << >>)
    /\ (CallEnded /\ prev_ok) => result \in { "Ok", "TimeoutError" }

\* C23: once an operation has raised DisconnectedError, no later send on the
\* connection goes through and no later call returns a response.
C23_DisconnectedPoisons ==
    poisoned => (pc \notin { "req_recv", "sync_recv" } /\ result # "Ok")

\* C24: a transport error met while a frame is sent or waited for reaches the
\* caller as DisconnectedError: a receive that ended in a transport error ends
\* the operation with DisconnectedError, not with Timeout, and once a frame has
\* been sent no operation ends with the transport's own exception.
C24_TransportErrorIsDisconnected ==
    /\ last_rx.kind = "io_error" => result = "DisconnectedError"
    /\ (sync_sent # << >> \/ req_sent > 0)
          => result \notin { "SerialException", "USBError" }

\* C26: a call returns a response only when the packet it took has no sync
\* flag, the serial of the request packet and status_code Ok.
C26_ReturnsOnlyOkReply ==
    (CallEnded /\ result = "Ok")
        => /\ resp_packet.kind = "packet"
           /\ ~resp_packet.sync
           /\ resp_packet.serial = req_packet
           /\ StatusCodeOf(resp_packet.response) = "StatusOk"

C30_TimeoutOnlyFromLastAttempt ==
    (CallEnded /\ result = "TimeoutError") => last_rx.kind = "timeout"

\* the bytes the last recv_frame took for the frame: what the buffer held
\* before its first zero
TakenFrame == SubSeq(fr_before, 1, FindZero(fr_before) - 1)

\* C27: a delimited frame is classed in this order: fewer than 7 bytes before
\* the zero give "Frame is too short"; otherwise a COBS failure gives "Failed
\* to decode COBS"; otherwise a trailing little-endian CRC32 that differs from
\* the CRC32 of the bytes before it gives "CRC32 mismatch" with both values;
\* in each case the frame and its delimiter are gone from the buffer, which
\* holds what followed them.
C27_ClassifiedInOrder ==
    FrameEnded =>
        LET frame == TakenFrame
            decoded == CobsDecode(frame)
            stored == UnpackLE(SubSeq(decoded, Len(decoded) - 3, Len(decoded)))
            calculated == crc32(SubSeq(decoded, 1, Len(decoded) - 4))
        IN  /\ Len(frame) < 7 => fr_got.kind = "short"
            /\ (Len(frame) >= 7 /\ decoded = CobsError) => fr_got.kind = "cobs"
            /\ (Len(frame) >= 7 /\ decoded # CobsError /\ stored # calculated)
                  => /\ fr_got.kind = "crc"
                     /\ fr_got.diag = << stored, calculated >>
            /\ (Len(frame) >= 7 /\ decoded # CobsError /\ stored = calculated)
                  => fr_got.kind = "payload"
            /\ FrameError(fr_got.kind) \in
                  { "Frame is too short", "Failed to decode COBS", "CRC32 mismatch", "" }
            /\ fr_got.kind # "payload" => FrameError(fr_got.kind) # ""
            /\ rxbuf = SubSeq(fr_before, Len(frame) + 2, Len(fr_before))

C27_Witness ==
    /\ fr_mod = "zero"
    /\ fr_got.kind = "short"
    /\ TakenFrame # << >>
    /\ CobsDecode(TakenFrame) = CobsError
    /\ rxbuf # << >>

\* C28: recv_frame ends with Timeout exactly when the buffer holds no zero by
\* the deadline, and then the buffer holds every byte read so far; on an
\* unchanged stream nothing is lost, and a frame taken after a timeout is the
\* frame that was sent.
C28_TimeoutKeepsBuffer ==
    /\ fr_got.kind # "none" => (fr_got.kind = "timeout" <=> ~HasZero(fr_before))
    /\ fr_got.kind = "timeout" => rxbuf = fr_before
    /\ fr_mod = "none" => rxbuf \o pending = Stream(fr_sent)
    /\ (fr_mod = "none" /\ fr_expect.took) => TakenFrame = FrameBody(fr_expect.payload)

\* C25: an operation called with an argument past the bound of its field, or
\* with a NUL in it, ends with an error before the facade hands any request
\* to simple_request: nothing is written and serial_no stays.
C25_OverflowRejectedFirst ==
    (op # "none" /\ arg # NoArg /\ ~WithinBounds(arg))
        => (fpc = "rejected" /\ reqs = << >>)

\* C31: a simple_request call writes at most `tries` request packets and at
\* most SyncTries sync packets in each resync, so at most tries * (1 + SyncTries)
\* packets in all, and a call that is running comes to its end, with a
\* response or with an error, whatever the device sends.
PacketsBounded ==
    /\ req_sent <= tries
    /\ Len(sync_sent) <= SyncTries
    /\ pkts <= tries * (1 + SyncTries)

C31_CallTerminates ==
    /\ [] PacketsBounded
    /\ (pc # "idle") ~> (pc = "idle" /\ result # "none")

\* a call that wrote every packet it may: each attempt met a sync packet and
\* each handshake timed out
C31_Witness ==
    /\ calls > 0
    /\ pc = "idle"
    /\ tries > 1
    /\ pkts = tries * (1 + SyncTries)
    /\ result = "TimeoutError"

\* the requests of the operation have all succeeded so far
AllOk == \A i \in DOMAIN reqs : reqs[i].res = "Ok"

\* every response of the traversal reported the same total
FixedTotal == \A i, j \in DOMAIN reqs : reqs[i].total = reqs[j].total

\* C32: a list traversal whose device reports one total throughout comes to
\* its end after finitely many requests, whatever the pages hold: every request
\* but the last brings the traversal nearer the total, so that no more requests
\* are made than the total has entries (one request for a total of 0).
C32_ListEndsWithinTotal ==
    (op \in Lists /\ AllOk /\ FixedTotal /\ Len(reqs) > 1)
        => Len(reqs) <= reqs[1].total

\* the number of Continue requests among the first n requests
RECURSIVE Continues(_, _)
Continues(q, n) ==
    IF n = 0 THEN 0
    ELSE Continues(q, n - 1) + (IF q[n].kind = "Continue" THEN 1 ELSE 0)

\* C33: a download whose requests all succeed and whose chunks all have the
\* right position leaves its Continue loop and sends Finish, whatever the
\* chunks hold: every Continue brings the download nearer the size reported,
\* so that no more Continue requests are made than the file has bytes.
C33_DownloadEndsWithinSize ==
    (op \in Downloads /\ AllOk /\ fpc # "failed")
        => Continues(reqs, Len(reqs)) <= size

\* C34: when the initiating request of a download fails, the file at the path
\* the caller named is as the call found it: not created, not cut.
C34_FailedDownloadKeepsFile ==
    (op \in Downloads /\ reqs # << >> /\ reqs[1].res # "Ok")
        => host_file.now = host_file.before

====
